---- MODULE Spec2Model ----
(***************************************************************************)
(* A model of virtual_assistant.py: the validated fields (Phone,           *)
(* Birthday), Record, AddressBook with the upcoming-birthday computation,  *)
(* and the command handlers wrapped by the input_error decorator.          *)
(*                                                                         *)
(* Python values are modelled as records tagged with their type.  A str is *)
(* [type |-> "str", chars |-> <<code points>>]: characters are Unicode     *)
(* code points, so that str.isdigit and the \d of the strptime regular     *)
(* expression can be computed character by character.  None is             *)
(* [type |-> "NoneType"].  A call either returns a value or raises an      *)
(* exception; both outcomes are values of the model (Return, Raise).       *)
(***************************************************************************)
EXTENDS Integers, Sequences, FiniteSets, TLC

VARIABLES
    book,     \* SpecBook, Spec: the AddressBook's data, an insertion-ordered dict
    record,   \* SpecRecord: the Record under test
    call,     \* the last call made: [op, args, today]
    ret,      \* its outcome: Return(value) or Raise(exception, message)
    pre       \* the state (book or record) the last call started from

vars == <<book, record, call, ret, pre>>

(***************************************************************************)
(* Program constants                                                       *)
(***************************************************************************)
PHONE_LENGTH == 10
DATE_FORMAT == "%d.%m.%Y"
WEEKEND_DAYS == 5
DAYS_IN_WEEK == 7

(***************************************************************************)
(* Python values and call outcomes                                         *)
(***************************************************************************)
Str(chars) == [type |-> "str", chars |-> chars]
None == [type |-> "NoneType"]

Return(v) == [kind |-> "return", value |-> v]
Raise(exc, msg) == [kind |-> "raise", exc |-> exc, value |-> msg]

\* A formatted message (an f-string): its literal pieces and interpolated
\* values, in order.
Msg(parts) == [type |-> "str", parts |-> parts]

(***************************************************************************)
(* Characters, and the Unicode classes Python consults for them (the       *)
(* Unicode 14.0.0 tables of the interpreter).                              *)
(***************************************************************************)
AsciiDigits == 48 .. 57                 \* '0' .. '9'

\* The code points of every script's digit zero: each is followed by that
\* script's digits one to nine.  These 66 runs of ten are Unicode category
\* Nd, the characters with Numeric_Type = Decimal.
DecimalZeros ==
    {48, 1632, 1776, 1984, 2406, 2534, 2662, 2790, 2918, 3046, 3174, 3302,
     3430, 3558, 3664, 3792, 3872, 4160, 4240, 6112, 6160, 6470, 6608,
     6784, 6800, 6992, 7088, 7232, 7248, 42528, 43216, 43264, 43472,
     43504, 43600, 44016, 65296, 66720, 68912, 69734, 69872, 69942, 70096,
     70384, 70736, 70864, 71248, 71360, 71472, 71904, 72016, 72784, 73040,
     73120, 92768, 92864, 93008, 120782, 120792, 120802, 120812, 120822,
     123200, 123632, 125264, 130032}

\* The runs <<first, last>> of the characters with Numeric_Type = Digit:
\* superscripts, subscripts, circled and parenthesized digits and the like.
OtherDigitRuns ==
    {<<178, 179>>, <<185, 185>>, <<4969, 4977>>, <<6618, 6618>>,
     <<8304, 8304>>, <<8308, 8313>>, <<8320, 8329>>, <<9312, 9320>>,
     <<9332, 9340>>, <<9352, 9360>>, <<9450, 9450>>, <<9461, 9469>>,
     <<9471, 9471>>, <<10102, 10110>>, <<10112, 10120>>, <<10122, 10130>>,
     <<68160, 68163>>, <<69216, 69224>>, <<69714, 69722>>,
     <<127232, 127242>>}

\* \d of a str regular expression, and str.isdecimal: Unicode category Nd.
CharIsDecimal(c) ==
    c \in AsciiDigits \/ \E z \in DecimalZeros : c \in z .. z + 9

\* str.isdigit is true of a character whose Unicode Numeric_Type is Decimal
\* or Digit: the ASCII digits, but also every other script's digits and the
\* superscript, subscript and circled digits.
CharIsDigit(c) ==
    CharIsDecimal(c) \/ \E r \in OtherDigitRuns : c \in r[1] .. r[2]

\* int() of one decimal digit character: its place in its script's run.
DigitValue(c) ==
    IF c \in AsciiDigits THEN c - 48
    ELSE c - (CHOOSE z \in DecimalZeros : c \in z .. z + 9)

\* str.isdigit(): every character is a digit and there is at least one.
isdigit(s) == Len(s.chars) > 0 /\ \A i \in 1 .. Len(s.chars) : CharIsDigit(s.chars[i])

(***************************************************************************)
(* Phone                                                                   *)
(***************************************************************************)
\* Phone._validate_phone: returns None or raises ValueError.
_validate_phone(phone_number) ==
    IF phone_number.type # "str"
    THEN Raise("ValueError", Msg(<<"Phone must be a string.">>))
    ELSE IF ~isdigit(phone_number)
    THEN Raise("ValueError", Msg(<<"Phone must contain only digits.">>))
    ELSE IF Len(phone_number.chars) # PHONE_LENGTH
    THEN Raise("ValueError", Msg(<<"Phone must be exactly ", PHONE_LENGTH, " digits">>))
    ELSE Return(None)

\* Phone.__init__: validate, then Field.__init__ stores the value.
Phone(phone_number) ==
    LET v == _validate_phone(phone_number)
    IN  IF v.kind = "raise" THEN v
        ELSE Return([type |-> "Phone", value |-> phone_number])

(***************************************************************************)
(* Calendar dates (datetime.date)                                          *)
(***************************************************************************)
Date(y, m, d) == [type |-> "date", year |-> y, month |-> m, day |-> d]

IsLeap(y) == y % 4 = 0 /\ (y % 100 # 0 \/ y % 400 = 0)

DaysInMonth(y, m) ==
    IF m = 2 THEN (IF IsLeap(y) THEN 29 ELSE 28)
    ELSE IF m \in {4, 6, 9, 11} THEN 30 ELSE 31

DaysBeforeYear(y) ==
    (y - 1) * 365 + (y - 1) \div 4 - (y - 1) \div 100 + (y - 1) \div 400

RECURSIVE DaysBeforeMonth(_, _)
DaysBeforeMonth(y, m) ==
    IF m = 1 THEN 0 ELSE DaysBeforeMonth(y, m - 1) + DaysInMonth(y, m - 1)

\* The date constructor's range check.
ValidYMD(y, m, d) ==
    /\ y \in 1 .. 9999
    /\ m \in 1 .. 12
    /\ d \in 1 .. DaysInMonth(y, m)

\* date.toordinal(): 1 for 0001-01-01.
ToOrdinal(dt) == DaysBeforeYear(dt.year) + DaysBeforeMonth(dt.year, dt.month) + dt.day

\* date.fromordinal(), by the 400/100/4/1-year cycle arithmetic.
FromOrdinal(ordinal) ==
    LET n0 == ordinal - 1
        n400 == n0 \div 146097
        r400 == n0 % 146097
        n100 == r400 \div 36524
        r100 == r400 % 36524
        n4 == r100 \div 1461
        r4 == r100 % 1461
        n1 == r4 \div 365
        n == r4 % 365
        year == n400 * 400 + 1 + n100 * 100 + n4 * 4 + n1
    IN  IF n1 = 4 \/ n100 = 4 THEN Date(year - 1, 12, 31)
        ELSE LET month == CHOOSE m \in 1 .. 12 :
                              /\ DaysBeforeMonth(year, m) <= n
                              /\ n < DaysBeforeMonth(year, m) + DaysInMonth(year, m)
             IN  Date(year, month, n - DaysBeforeMonth(year, month) + 1)

\* date.weekday(): Monday = 0 .. Sunday = 6.
weekday(dt) == (ToOrdinal(dt) + 6) % 7

\* date < date.
DateLess(a, b) == ToOrdinal(a) < ToOrdinal(b)

MaxOrdinal == ToOrdinal(Date(9999, 12, 31))

\* date + timedelta(days): OverflowError outside 0001-01-01 .. 9999-12-31.
DatePlusDays(dt, days) ==
    LET o == ToOrdinal(dt) + days
    IN  IF o < 1 \/ o > MaxOrdinal
        THEN Raise("OverflowError", Msg(<<"date value out of range">>))
        ELSE Return(FromOrdinal(o))

\* date.replace(year=y): ValueError when the day does not exist in year y
\* (29 February in a common year) or y is out of range.
ReplaceYear(dt, y) ==
    IF ValidYMD(y, dt.month, dt.day)
    THEN Return(Date(y, dt.month, dt.day))
    ELSE IF y \notin 1 .. 9999
    THEN Raise("ValueError", Msg(<<"year ", y, " is out of range">>))
    ELSE Raise("ValueError", Msg(<<"day is out of range for month">>))

(***************************************************************************)
(* datetime.strptime(value, "%d.%m.%Y") and date.strftime("%d.%m.%Y")      *)
(***************************************************************************)
\* %d: the regular expression 3[0-1]|[1-2]\d|0[1-9]|[1-9]| [1-9] on the
\* `len` characters of c that start at position `at`.
MatchesDay(c, at, len) ==
    IF len = 2
    THEN \/ c[at] = 51 /\ c[at + 1] \in {48, 49}
         \/ c[at] \in {49, 50} /\ CharIsDecimal(c[at + 1])
         \/ c[at] = 48 /\ c[at + 1] \in 49 .. 57
         \/ c[at] = 32 /\ c[at + 1] \in 49 .. 57
    ELSE c[at] \in 49 .. 57

\* %m: the regular expression 1[0-2]|0[1-9]|[1-9].
MatchesMonth(c, at, len) ==
    IF len = 2
    THEN \/ c[at] = 49 /\ c[at + 1] \in 48 .. 50
         \/ c[at] = 48 /\ c[at + 1] \in 49 .. 57
    ELSE c[at] \in 49 .. 57

\* %Y: the regular expression \d\d\d\d.
MatchesYear(c, at) == \A i \in at .. at + 3 : CharIsDecimal(c[i])

\* int() of the characters c[at .. at + len - 1]; a leading space is skipped.
RECURSIVE IntOf(_, _, _)
IntOf(c, at, len) ==
    IF len = 0 THEN 0
    ELSE IF c[at + len - 1] = 32 THEN 0
    ELSE IntOf(c, at, len - 1) * 10 + DigitValue(c[at + len - 1])

\* The ways the format's regular expression matches a prefix of c: the
\* lengths of the day and of the month.  At most one pair matches.
FormatMatches(c) ==
    {lens \in {1, 2} \X {1, 2} :
        LET ld == lens[1]
            lm == lens[2]
        IN  /\ Len(c) >= ld + lm + 6
            /\ MatchesDay(c, 1, ld)
            /\ c[ld + 1] = 46
            /\ MatchesMonth(c, ld + 2, lm)
            /\ c[ld + lm + 2] = 46
            /\ MatchesYear(c, ld + lm + 3)}

\* The name a TypeError message gives the type of a value: "None" for None,
\* the qualified "datetime.date" for a date, the class name otherwise.
TypeName(value) ==
    IF value = None THEN "None"
    ELSE IF value.type = "date" THEN "datetime.date"
    ELSE value.type

\* datetime.strptime(value, DATE_FORMAT).date(): the date, or ValueError
\* (no match, trailing characters, or no such calendar date); TypeError when
\* value is not a str.
strptime(value) ==
    IF value.type # "str"
    THEN Raise("TypeError",
               Msg(<<"strptime() argument 1 must be str, not ", TypeName(value)>>))
    ELSE LET c == value.chars
             ms == FormatMatches(c)
         IN  IF ms = {}
             THEN Raise("ValueError", Msg(<<"time data ", value, " does not match format ", DATE_FORMAT>>))
             ELSE LET lens == CHOOSE x \in ms : TRUE
                      ld == lens[1]
                      lm == lens[2]
                      d == IntOf(c, 1, ld)
                      m == IntOf(c, ld + 2, lm)
                      y == IntOf(c, ld + lm + 3, 4)
                      end == ld + lm + 6
                  IN  IF Len(c) # end
                      THEN Raise("ValueError",
                                 Msg(<<"unconverted data remains: ",
                                       Str(SubSeq(c, end + 1, Len(c)))>>))
                      ELSE IF y \notin 1 .. 9999
                      THEN Raise("ValueError", Msg(<<"year ", y, " is out of range">>))
                      ELSE IF ~ValidYMD(y, m, d)
                      THEN Raise("ValueError", Msg(<<"day is out of range for month">>))
                      ELSE Return(Date(y, m, d))

\* The decimal digits of n, without padding.
RECURSIVE Decimal(_)
Decimal(n) == IF n < 10 THEN <<48 + n>> ELSE Decimal(n \div 10) \o <<48 + (n % 10)>>

\* %d and %m: two digits, zero-padded.
Pad2(n) == <<48 + (n \div 10), 48 + (n % 10)>>

\* date.strftime(DATE_FORMAT).  %Y is the year's decimal digits (the C
\* library does not pad it).
strftime(dt) == Str(Pad2(dt.day) \o <<46>> \o Pad2(dt.month) \o <<46>> \o Decimal(dt.year))

(***************************************************************************)
(* Birthday                                                                *)
(***************************************************************************)
\* Birthday.__init__: parse; any ValueError becomes the format error.
Birthday(value) ==
    LET parsed == strptime(value)
    IN  IF parsed.kind = "raise"
        THEN IF parsed.exc = "ValueError"
             THEN Raise("ValueError", Msg(<<"Invalid date format. Use ", DATE_FORMAT>>))
             ELSE parsed
        ELSE Return([type |-> "Birthday", value |-> parsed.value])

(***************************************************************************)
(* Record                                                                  *)
(***************************************************************************)
\* Record.__init__
Record(name) ==
    [type |-> "Record", name |-> [type |-> "Name", value |-> name], phones |-> <<>>,
     birthday |-> None]

\* The index of the first phone whose value equals `phone`, 0 when none:
\* the scan of find_phone, remove_phone and edit_phone.
FirstIndex(phones, phone) ==
    IF \E i \in 1 .. Len(phones) : phones[i].value = phone
    THEN CHOOSE i \in 1 .. Len(phones) :
             /\ phones[i].value = phone
             /\ \A j \in 1 .. i - 1 : phones[j].value # phone
    ELSE 0

\* Record.find_phone: the Phone object or None.
find_phone(rec, phone) ==
    LET i == FirstIndex(rec.phones, phone)
    IN  IF i = 0 THEN None ELSE rec.phones[i]

\* list.pop(index)
PopAt(seq, index) ==
    [j \in 1 .. Len(seq) - 1 |-> IF j < index THEN seq[j] ELSE seq[j + 1]]

\* add_phone without the find_phone check: the phone is appended even when
\* an equal one is present.
add_phone_unchecked(rec, phone_raw) ==
    LET new_phone == Phone(phone_raw)
    IN  IF new_phone.kind = "raise"
        THEN [rec |-> rec, out |-> new_phone]
        ELSE [rec |-> [rec EXCEPT !.phones = Append(@, new_phone.value)],
              out |-> Return(None)]

\* Record.add_phone: [rec |-> the record afterwards, out |-> the outcome].
add_phone(rec, phone_raw) ==
    IF find_phone(rec, phone_raw) # None
    THEN [rec |-> rec, out |-> Raise("ValueError", Msg(<<"This phone is already added.">>))]
    ELSE LET new_phone == Phone(phone_raw)
         IN  IF new_phone.kind = "raise"
             THEN [rec |-> rec, out |-> new_phone]
             ELSE [rec |-> [rec EXCEPT !.phones = Append(@, new_phone.value)],
                   out |-> Return(None)]

\* Record.remove_phone
remove_phone(rec, phone_to_delete) ==
    LET index == FirstIndex(rec.phones, phone_to_delete)
    IN  IF index # 0
        THEN [rec |-> [rec EXCEPT !.phones = PopAt(@, index)], out |-> Return(TRUE)]
        ELSE [rec |-> rec, out |-> Return(FALSE)]

\* edit_phone storing the raw string's Phone without validating it.
edit_phone_unvalidated(rec, old_phone, new_phone) ==
    LET index == FirstIndex(rec.phones, old_phone)
    IN  IF index # 0
        THEN [rec |-> [rec EXCEPT !.phones[index] = [type |-> "Phone", value |-> new_phone]],
              out |-> Return(TRUE)]
        ELSE [rec |-> rec, out |-> Return(FALSE)]

\* Record.edit_phone
edit_phone(rec, old_phone, new_phone) ==
    LET index == FirstIndex(rec.phones, old_phone)
    IN  IF index # 0
        THEN LET made == Phone(new_phone)
             IN  IF made.kind = "raise"
                 THEN [rec |-> rec, out |-> made]
                 ELSE [rec |-> [rec EXCEPT !.phones[index] = made.value],
                       out |-> Return(TRUE)]
        ELSE [rec |-> rec, out |-> Return(FALSE)]

\* Record.add_birthday
add_birthday_method(rec, birthday) ==
    LET made == Birthday(birthday)
    IN  IF made.kind = "raise"
        THEN [rec |-> rec, out |-> made]
        ELSE [rec |-> [rec EXCEPT !.birthday = made.value], out |-> Return(None)]

(***************************************************************************)
(* AddressBook.  self.data is a dict, which keeps insertion order: a       *)
(* sequence of entries [key, rec] with distinct keys.                      *)
(***************************************************************************)
\* The position of `name` among the keys, 0 when absent.
KeyIndex(data, name) ==
    IF \E i \in 1 .. Len(data) : data[i].key = name
    THEN CHOOSE i \in 1 .. Len(data) : data[i].key = name
    ELSE 0

\* self.data[key] = rec: an existing key keeps its position, a new key is
\* added at the end.
SetItem(data, key, rec) ==
    LET i == KeyIndex(data, key)
    IN  IF i = 0 THEN Append(data, [key |-> key, rec |-> rec])
        ELSE [data EXCEPT ![i] = [key |-> key, rec |-> rec]]

\* add_record by dict.setdefault: an existing key keeps its first Record.
add_record_setdefault(data, rec) ==
    IF KeyIndex(data, rec.name.value) = 0
    THEN Append(data, [key |-> rec.name.value, rec |-> rec])
    ELSE data

\* AddressBook.add_record
add_record(data, rec) == SetItem(data, rec.name.value, rec)

\* AddressBook.find: the Record or None.
find(data, name) ==
    LET i == KeyIndex(data, name)
    IN  IF i = 0 THEN None ELSE data[i].rec

\* delete by dict.popitem: the last entry goes when the name is a key.
delete_popitem(data, name) ==
    IF KeyIndex(data, name) # 0
    THEN [data |-> SubSeq(data, 1, Len(data) - 1), out |-> Return(TRUE)]
    ELSE [data |-> data, out |-> Return(FALSE)]

\* AddressBook.delete: [data |-> the dict afterwards, out |-> the outcome].
delete(data, name) ==
    LET i == KeyIndex(data, name)
    IN  IF i # 0
        THEN [data |-> PopAt(data, i), out |-> Return(TRUE)]
        ELSE [data |-> data, out |-> Return(FALSE)]

\* The loop's iteration with the weekend test `> WEEKEND_DAYS`: a Saturday
\* is not moved.
UpcomingStep_saturday(name, rec, today) ==
    IF rec.birthday = None THEN Return(<<>>)
    ELSE
    LET birthday == rec.birthday.value
        this_year == ReplaceYear(birthday, today.year)
    IN  IF this_year.kind = "raise" THEN this_year
        ELSE
        LET next_year == IF DateLess(this_year.value, today)
                         THEN ReplaceYear(birthday, today.year + 1)
                         ELSE this_year
        IN  IF next_year.kind = "raise" THEN next_year
            ELSE
            LET birthday_this_year == next_year.value
                days_until_birthday == ToOrdinal(birthday_this_year) - ToOrdinal(today)
            IN  IF 0 <= days_until_birthday /\ days_until_birthday <= DAYS_IN_WEEK
                THEN LET wd == weekday(birthday_this_year)
                         congratulation_date ==
                             IF wd > WEEKEND_DAYS
                             THEN DatePlusDays(birthday_this_year, DAYS_IN_WEEK - wd)
                             ELSE Return(birthday_this_year)
                     IN  IF congratulation_date.kind = "raise" THEN congratulation_date
                         ELSE Return(<<[name |-> name,
                                        congratulation_date |->
                                            strftime(congratulation_date.value)]>>)
                ELSE Return(<<>>)

\* One iteration of the loop of get_upcoming_birthdays for the entry
\* (name, rec): Return(<<>>) when the contact is skipped, Return(<<item>>)
\* when it is appended, or the exception raised.
UpcomingStep(name, rec, today) ==
    IF rec.birthday = None THEN Return(<<>>)
    ELSE
    LET birthday == rec.birthday.value
        this_year == ReplaceYear(birthday, today.year)
    IN  IF this_year.kind = "raise" THEN this_year
        ELSE
        LET next_year == IF DateLess(this_year.value, today)
                         THEN ReplaceYear(birthday, today.year + 1)
                         ELSE this_year
        IN  IF next_year.kind = "raise" THEN next_year
            ELSE
            LET birthday_this_year == next_year.value
                days_until_birthday == ToOrdinal(birthday_this_year) - ToOrdinal(today)
            IN  IF 0 <= days_until_birthday /\ days_until_birthday <= DAYS_IN_WEEK
                THEN LET wd == weekday(birthday_this_year)
                         congratulation_date ==
                             IF wd >= WEEKEND_DAYS
                             THEN DatePlusDays(birthday_this_year, DAYS_IN_WEEK - wd)
                             ELSE Return(birthday_this_year)
                     IN  IF congratulation_date.kind = "raise" THEN congratulation_date
                         ELSE Return(<<[name |-> name,
                                        congratulation_date |->
                                            strftime(congratulation_date.value)]>>)
                ELSE Return(<<>>)

\* The loop over self.data.items(), from entry i on, with the list built so
\* far: the first exception raised ends it.
RECURSIVE UpcomingLoop(_, _, _, _)
UpcomingLoop(data, today, i, upcoming_birthdays) ==
    IF i > Len(data) THEN Return(upcoming_birthdays)
    ELSE LET step == UpcomingStep(data[i].key, data[i].rec, today)
         IN  IF step.kind = "raise" THEN step
             ELSE UpcomingLoop(data, today, i + 1, upcoming_birthdays \o step.value)

\* AddressBook.get_upcoming_birthdays, with date.today() = today.
get_upcoming_birthdays(data, today) == UpcomingLoop(data, today, 1, <<>>)

(***************************************************************************)
(* The command handlers.  Each yields [data |-> the book afterwards,       *)
(* out |-> the outcome]; a Record found in the book is the book's own      *)
(* object, so what a handler does to it is done to the book's entry.       *)
(***************************************************************************)
\* input_error without the IndexError clause.
input_error_no_index(res) ==
    IF res.out.kind # "raise" THEN res
    ELSE IF res.out.exc = "ValueError" THEN [res EXCEPT !.out = Return(res.out.value)]
    ELSE IF res.out.exc = "KeyError" THEN [res EXCEPT !.out = Return(Msg(<<"key error.">>))]
    ELSE res

\* The input_error decorator: ValueError, KeyError and IndexError become
\* returned strings; any other exception passes through.
input_error(res) ==
    IF res.out.kind # "raise" THEN res
    ELSE IF res.out.exc = "ValueError" THEN [res EXCEPT !.out = Return(res.out.value)]
    ELSE IF res.out.exc = "KeyError" THEN [res EXCEPT !.out = Return(Msg(<<"key error.">>))]
    ELSE IF res.out.exc = "IndexError"
    THEN [res EXCEPT !.out = Return(Msg(<<"Enter the argument for the command.">>))]
    ELSE res

\* `a, b, *_ = args` with too few values.
UnpackError(need, got) ==
    Raise("ValueError",
          Msg(<<"not enough values to unpack (expected at least ", need, ", got ", got, ")">>))

\* The body of add_birthday.
add_birthday_body(args, data) ==
    IF Len(args) < 2 THEN [data |-> data, out |-> UnpackError(2, Len(args))]
    ELSE
    LET name == args[1]
        birthday == args[2]
        found == find(data, name)
    IN  IF found = None
        THEN LET created == add_record(data, Record(name))
                 r == add_birthday_method(Record(name), birthday)
             IN  IF r.out.kind = "raise" THEN [data |-> created, out |-> r.out]
                 ELSE [data |-> SetItem(created, name, r.rec),
                       out |-> Return(Msg(<<"Contact '", name, "' created with birthday ",
                                            birthday, ".">>))]
        ELSE LET r == add_birthday_method(found, birthday)
             IN  IF r.out.kind = "raise" THEN [data |-> data, out |-> r.out]
                 ELSE [data |-> SetItem(data, name, r.rec),
                       out |-> Return(Msg(<<"Birthday ", birthday, " added to contact '",
                                            name, "'.">>))]

add_birthday(args, data) == input_error(add_birthday_body(args, data))

\* The body of show_birthday.
show_birthday_body(args, data) ==
    IF Len(args) < 1 THEN [data |-> data, out |-> UnpackError(1, Len(args))]
    ELSE
    LET name == args[1]
        found == find(data, name)
    IN  IF found # None
        THEN IF found.birthday # None
             THEN [data |-> data,
                   out |-> Return(Msg(<<"Birthday of ", name, " is ",
                                        strftime(found.birthday.value)>>))]
             ELSE [data |-> data,
                   out |-> Return(Msg(<<"Error: Contact '", name, "' has no birthday.">>))]
        ELSE [data |-> data, out |-> Return(Msg(<<"Error: Contact '", name, "' not found.">>))]

show_birthday(args, data) == input_error(show_birthday_body(args, data))

\* The lines "name: date" of birthdays.
BirthdayLines(items) ==
    [i \in 1 .. Len(items) |-> <<items[i].name, ": ", items[i].congratulation_date>>]

\* The body of birthdays, with date.today() = today.
birthdays_body(data, today) ==
    LET upcoming_birthdays == get_upcoming_birthdays(data, today)
    IN  IF upcoming_birthdays.kind = "raise" THEN [data |-> data, out |-> upcoming_birthdays]
        ELSE IF upcoming_birthdays.value = <<>>
        THEN [data |-> data, out |-> Return(Msg(<<"No upcoming birthdays.">>))]
        ELSE [data |-> data,
              out |-> Return(Msg(<<"Upcoming birthdays:">>
                                 \o BirthdayLines(upcoming_birthdays.value)))]

birthdays(data, today) == input_error(birthdays_body(data, today))

\* The body of add_contact.
add_contact_body(args, data) ==
    IF args = <<>>
    THEN [data |-> data, out |-> Return(Msg(<<"Error: Please provide at least a name.">>))]
    ELSE
    LET name == args[1]
        phone == IF Len(args) > 1 THEN args[2] ELSE None
        truthy == phone # None /\ phone.chars # <<>>
        found == find(data, name)
    IN  IF found = None
        THEN LET created == add_record(data, Record(name))
             IN  IF truthy
                 THEN LET r == add_phone(Record(name), phone)
                      IN  IF r.out.kind = "raise" THEN [data |-> created, out |-> r.out]
                          ELSE [data |-> SetItem(created, name, r.rec),
                                out |-> Return(Msg(<<"Contact '", name,
                                                     "' created with phone ", phone, ".">>))]
                 ELSE [data |-> created,
                       out |-> Return(Msg(<<"Contact '", name, "' created without phone.">>))]
        ELSE IF truthy
             THEN LET r == add_phone(found, phone)
                  IN  IF r.out.kind = "raise" THEN [data |-> data, out |-> r.out]
                      ELSE [data |-> SetItem(data, name, r.rec),
                            out |-> Return(Msg(<<"Phone ", phone, " added to contact '",
                                                 name, "'.">>))]
             ELSE [data |-> data,
                   out |-> Return(Msg(<<"Contact '", name, "' already exists.">>))]

add_contact(args, data) == input_error(add_contact_body(args, data))

\* The body of change_contact.
change_contact_body(args, data) ==
    IF Len(args) < 3 THEN [data |-> data, out |-> UnpackError(3, Len(args))]
    ELSE
    LET name == args[1]
        old_phone == args[2]
        new_phone == args[3]
        found == find(data, name)
    IN  IF found = None
        THEN [data |-> data, out |-> Return(Msg(<<"Error: Contact '", name, "' not found.">>))]
        ELSE LET r == edit_phone(found, old_phone, new_phone)
             IN  IF r.out.kind = "raise" THEN [data |-> data, out |-> r.out]
                 ELSE IF r.out.value
                 THEN [data |-> SetItem(data, name, r.rec),
                       out |-> Return(Msg(<<"Contact updated.">>))]
                 ELSE [data |-> data,
                       out |-> Return(Msg(<<"Error: Phone '", old_phone, "' not found.">>))]

change_contact(args, data) == input_error(change_contact_body(args, data))

\* [phone.value for phone in record.phones]
PhoneValues(phones) == [i \in 1 .. Len(phones) |-> phones[i].value]

\* The body of show_phone.
show_phone_body(args, data) ==
    IF Len(args) < 1
    THEN [data |-> data, out |-> Raise("IndexError", Msg(<<"list index out of range">>))]
    ELSE
    LET name == args[1]
        found == find(data, name)
    IN  IF found # None
        THEN IF found.phones # <<>>
             THEN [data |-> data,
                   out |-> Return(Msg(<<"Phones of ", name, ": ", PhoneValues(found.phones)>>))]
             ELSE [data |-> data,
                   out |-> Return(Msg(<<"Contact '", name, "' has no phones.">>))]
        ELSE [data |-> data, out |-> Return(Msg(<<"Error: Contact '", name, "' not found.">>))]

show_phone(args, data) == input_error(show_phone_body(args, data))

\* The body of show_all.
show_all_body(data) ==
    IF data = <<>> THEN [data |-> data, out |-> Return(Msg(<<"No contacts found.">>))]
    ELSE [data |-> data,
          out |-> Return(Msg([i \in 1 .. Len(data) |->
                                 <<data[i].key, ": ", PhoneValues(data[i].rec.phones)>>]))]

show_all(data) == input_error(show_all_body(data))

(***************************************************************************)
(* Bounds and input sets                                                   *)
(***************************************************************************)
MaxPhoneLen == 11      \* SpecPhone: longest string given to Phone
MaxPhones == 3         \* SpecRecord: longest phone list of the Record
MaxBookPhones == 1     \* Spec: longest phone list of a Record in the book
MaxArgs == 3           \* Spec: longest argument list given to a handler
TodaySpan == 10        \* SpecBook: days of each window date.today() ranges over

Repeat(c, n) == [i \in 1 .. n |-> c]

\* SpecPhone: the characters of the strings: '0', '9', 'a', '+', ' ',
\* ARABIC-INDIC DIGIT THREE, EXTENDED ARABIC-INDIC DIGIT THREE, SUPERSCRIPT
\* TWO, CIRCLED DIGIT ONE.
PhoneAlphabet == {48, 57, 97, 43, 32, 1635, 1779, 178, 9312}

\* SpecPhone: every string of one repeated character with at most one
\* character replaced, of each length up to MaxPhoneLen; and None, which is
\* not a str.
PhoneInputs ==
    {Str([j \in 1 .. n |-> IF j = x[1] THEN x[2] ELSE b]) :
        n \in 0 .. MaxPhoneLen, b \in PhoneAlphabet,
        x \in (0 .. MaxPhoneLen) \X PhoneAlphabet}
    \cup {None}

\* Phone numbers of 10 ASCII digits.
AsciiPhones == {Str(Repeat(48, PHONE_LENGTH)), Str(Repeat(49, PHONE_LENGTH))}

\* 10 ARABIC-INDIC DIGIT THREE.
ArabicPhone == Str(Repeat(1635, PHONE_LENGTH))

\* SpecRecord: the strings given to the Record's methods: the phone numbers
\* above, 9 digits, 11 digits, a letter among the digits, the empty string.
RecordPhoneInputs ==
    AsciiPhones \cup
    {ArabicPhone,
     Str(Repeat(49, PHONE_LENGTH - 1)),
     Str(Repeat(49, PHONE_LENGTH + 1)),
     Str(<<97>> \o Repeat(49, PHONE_LENGTH - 1)),
     Str(<<>>)}

\* Contact names: "A", "B".
Names == {Str(<<65>>), Str(<<66>>)}

\* Birthdays stored in the book: 29 February, 2 January (next year for a
\* December today), and 18 and 19 May (a Saturday and a Sunday in 2024).
BirthdayDates == {Date(2000, 2, 29), Date(1990, 1, 2), Date(1995, 5, 18), Date(1996, 5, 19)}

\* SpecBook: date.today() ranges over TodaySpan + 1 days from each of: the
\* end of a year, February of a leap year and of a common year, May 2024.
TodayStarts == {Date(2023, 12, 24), Date(2024, 2, 20), Date(2025, 2, 20), Date(2024, 5, 10)}
Todays == {FromOrdinal(ToOrdinal(s) + k) : s \in TodayStarts, k \in 0 .. TodaySpan}

\* SpecBook: the keys of the book: the contact names and a third, "C", so
\* that a book holds up to three entries: a delete from it leaves two whose
\* order can be compared, and a book of two entries still lacks a name.
BookNames == Names \cup {Str(<<67>>)}

\* SpecBook: the phone lists and birthdays of the Records given to
\* add_record: no phone or one; no birthday or one of BirthdayDates.
BookPhoneLists == {<<>>} \cup {<<[type |-> "Phone", value |-> p]>> : p \in AsciiPhones}
BookBirthdays == {None} \cup {[type |-> "Birthday", value |-> d] : d \in BirthdayDates}

\* SpecBook: the Records given to add_record: "A" and "B" with every phone
\* list and birthday above, "C" with every birthday and no phone.
BookRecords ==
    {[type |-> "Record", name |-> [type |-> "Name", value |-> n], phones |-> l,
      birthday |-> b] :
        n \in Names, l \in BookPhoneLists, b \in BookBirthdays}
    \cup
    {[type |-> "Record", name |-> [type |-> "Name", value |-> n], phones |-> <<>>,
      birthday |-> b] :
        n \in BookNames \ Names, b \in BookBirthdays}

\* Spec: the argument strings after the name: two phone numbers and two
\* dates ("20.05.1995", "29.02.2000"); a date is no phone and a phone no date.
ValueTokens == AsciiPhones \cup {strftime(Date(1995, 5, 20)), strftime(Date(2000, 2, 29))}

\* Spec: argument lists: a name, then values; arguments past the third are
\* the ones every handler ignores.
ExtraTokens == {Str(<<120>>)}
RECURSIVE ArgLists(_)
ArgLists(n) ==
    IF n = 0 THEN {<<>>}
    ELSE ArgLists(n - 1) \cup
         {Append(a, v) :
             a \in {m \in ArgLists(n - 1) : Len(m) = n - 1},
             v \in IF n = 1 THEN Names ELSE IF n <= 3 THEN ValueTokens ELSE ExtraTokens}

\* Spec: date.today(): before 29 February of a leap year, the same day of a
\* common year, and Friday 17 May 2024.
HandlerTodays == {Date(2024, 2, 25), Date(2025, 2, 25), Date(2024, 5, 17)}

WithinPhoneBound(data) == \A i \in 1 .. Len(data) : Len(data[i].rec.phones) <= MaxBookPhones

(***************************************************************************)
(* Calls.  The program is sequential: a call is made when none is          *)
(* outstanding (call = NoCall), runs to its outcome, and the caller then   *)
(* takes the outcome (Resume) before the next call.  `pre` keeps the state *)
(* the call started from.                                                  *)
(***************************************************************************)
NoCall == [op |-> "none", args |-> <<>>, today |-> None]

Init ==
    /\ book = <<>>
    /\ record = Record(Str(<<65>>))
    /\ call = NoCall
    /\ ret = Return(None)
    /\ pre = <<>>

\* The caller of a method takes its outcome, a value or an exception.
Resume ==
    /\ call # NoCall
    /\ call' = NoCall
    /\ ret' = Return(None)
    /\ pre' = <<>>
    /\ UNCHANGED <<book, record>>

(***************************************************************************)
(* SpecPhone: Phone construction on every input string                     *)
(***************************************************************************)
PhoneConstruct ==
    /\ call = NoCall
    /\ \E s \in PhoneInputs :
        /\ call' = [op |-> "Phone", args |-> <<s>>, today |-> None]
        /\ ret' = Phone(s)
        /\ UNCHANGED <<book, record, pre>>

NextPhone == PhoneConstruct \/ Resume

SpecPhone == Init /\ [][NextPhone]_vars

(***************************************************************************)
(* SpecRecord: one Record and its phone methods                            *)
(***************************************************************************)
RecordAddPhone ==
    /\ call = NoCall
    /\ \E p \in RecordPhoneInputs :
        LET r == add_phone(record, p)
        IN  /\ Len(r.rec.phones) <= MaxPhones
            /\ call' = [op |-> "add_phone", args |-> <<p>>, today |-> None]
            /\ pre' = record
            /\ record' = r.rec
            /\ ret' = r.out
            /\ UNCHANGED book

RecordRemovePhone ==
    /\ call = NoCall
    /\ \E p \in RecordPhoneInputs :
        LET r == remove_phone(record, p)
        IN  /\ call' = [op |-> "remove_phone", args |-> <<p>>, today |-> None]
            /\ pre' = record
            /\ record' = r.rec
            /\ ret' = r.out
            /\ UNCHANGED book

RecordEditPhone ==
    /\ call = NoCall
    /\ \E old \in RecordPhoneInputs, new \in RecordPhoneInputs :
        LET r == edit_phone(record, old, new)
        IN  /\ call' = [op |-> "edit_phone", args |-> <<old, new>>, today |-> None]
            /\ pre' = record
            /\ record' = r.rec
            /\ ret' = r.out
            /\ UNCHANGED book

NextRecord == RecordAddPhone \/ RecordRemovePhone \/ RecordEditPhone \/ Resume

SpecRecord == Init /\ [][NextRecord]_vars

(***************************************************************************)
(* SpecBook: the AddressBook's methods                                     *)
(***************************************************************************)
BookAddRecord ==
    /\ call = NoCall
    /\ \E r \in BookRecords :
        /\ call' = [op |-> "add_record", args |-> <<r>>, today |-> None]
        /\ pre' = book
        /\ book' = add_record(book, r)
        /\ ret' = Return(None)
        /\ UNCHANGED record

BookFind ==
    /\ call = NoCall
    /\ \E n \in BookNames :
        /\ call' = [op |-> "find", args |-> <<n>>, today |-> None]
        /\ pre' = book
        /\ ret' = Return(find(book, n))
        /\ UNCHANGED <<book, record>>

BookDelete ==
    /\ call = NoCall
    /\ \E n \in BookNames :
        LET r == delete(book, n)
        IN  /\ call' = [op |-> "delete", args |-> <<n>>, today |-> None]
            /\ pre' = book
            /\ book' = r.data
            /\ ret' = r.out
            /\ UNCHANGED record

BookUpcoming ==
    /\ call = NoCall
    /\ \E t \in Todays :
        /\ call' = [op |-> "get_upcoming_birthdays", args |-> <<>>, today |-> t]
        /\ pre' = book
        /\ ret' = get_upcoming_birthdays(book, t)
        /\ UNCHANGED <<book, record>>

NextBook == BookAddRecord \/ BookFind \/ BookDelete \/ BookUpcoming \/ Resume

SpecBook == Init /\ [][NextBook]_vars

(***************************************************************************)
(* Spec: the command handlers, as the loop of main dispatches them         *)
(***************************************************************************)
AddContact ==
    /\ call = NoCall
    /\ \E a \in ArgLists(MaxArgs) :
        LET res == add_contact(a, book)
        IN  /\ WithinPhoneBound(res.data)
            /\ call' = [op |-> "add_contact", args |-> a, today |-> None]
            /\ pre' = book
            /\ book' = res.data
            /\ ret' = res.out
            /\ UNCHANGED record

ChangeContact ==
    /\ call = NoCall
    /\ \E a \in ArgLists(MaxArgs) :
        LET res == change_contact(a, book)
        IN  /\ call' = [op |-> "change_contact", args |-> a, today |-> None]
            /\ pre' = book
            /\ book' = res.data
            /\ ret' = res.out
            /\ UNCHANGED record

ShowPhone ==
    /\ call = NoCall
    /\ \E a \in ArgLists(MaxArgs) :
        LET res == show_phone(a, book)
        IN  /\ call' = [op |-> "show_phone", args |-> a, today |-> None]
            /\ pre' = book
            /\ book' = res.data
            /\ ret' = res.out
            /\ UNCHANGED record

\* main: lambda args, book: show_all(book)
ShowAll ==
    /\ call = NoCall
    /\ \E a \in ArgLists(MaxArgs) :
        LET res == show_all(book)
        IN  /\ call' = [op |-> "show_all", args |-> a, today |-> None]
            /\ pre' = book
            /\ book' = res.data
            /\ ret' = res.out
            /\ UNCHANGED record

AddBirthday ==
    /\ call = NoCall
    /\ \E a \in ArgLists(MaxArgs) :
        LET res == add_birthday(a, book)
        IN  /\ call' = [op |-> "add_birthday", args |-> a, today |-> None]
            /\ pre' = book
            /\ book' = res.data
            /\ ret' = res.out
            /\ UNCHANGED record

ShowBirthday ==
    /\ call = NoCall
    /\ \E a \in ArgLists(MaxArgs) :
        LET res == show_birthday(a, book)
        IN  /\ call' = [op |-> "show_birthday", args |-> a, today |-> None]
            /\ pre' = book
            /\ book' = res.data
            /\ ret' = res.out
            /\ UNCHANGED record

\* main: lambda args, book: birthdays(book)
Birthdays ==
    /\ call = NoCall
    /\ \E a \in ArgLists(MaxArgs), t \in HandlerTodays :
        LET res == birthdays(book, t)
        IN  /\ call' = [op |-> "birthdays", args |-> a, today |-> t]
            /\ pre' = book
            /\ book' = res.data
            /\ ret' = res.out
            /\ UNCHANGED record

\* main: print(commands[command](args, book)), then the next turn of the
\* loop.  An exception out of a handler ends main instead.
PrintResult ==
    /\ call # NoCall
    /\ ret.kind = "return"
    /\ call' = NoCall
    /\ ret' = Return(None)
    /\ pre' = <<>>
    /\ UNCHANGED <<book, record>>

Next ==
    \/ AddContact
    \/ ChangeContact
    \/ ShowPhone
    \/ ShowAll
    \/ AddBirthday
    \/ ShowBirthday
    \/ Birthdays
    \/ PrintResult

Spec == Init /\ [][Next]_vars

(***************************************************************************)
(* Properties                                                              *)
(***************************************************************************)
\* s is present among the phone values.
Present(rec, s) == \E i \in 1 .. Len(rec.phones) : rec.phones[i].value = s

\* Phone construction accepts s.
Accepted(s) == Phone(s).kind = "return"

\* s is a str of exactly 10 ASCII digits.
TenAsciiDigits(s) ==
    /\ s.type = "str"
    /\ Len(s.chars) = 10
    /\ \A i \in 1 .. Len(s.chars) : s.chars[i] \in 48 .. 57

\* C1: after any sequence of add_phone, remove_phone and edit_phone calls
\* on a fresh Record, no two entries of its phone list have the same value.
C1_NoDuplicatePhones ==
    \A i, j \in 1 .. Len(record.phones) :
        i # j => record.phones[i].value # record.phones[j].value

\* C2: Phone construction fails for every string that is not exactly 10
\* ASCII digits, and for every string of 10 ASCII digits it succeeds with
\* that string as the Phone's value.
C2_PhoneIsTenAsciiDigits ==
    (call.op = "Phone" /\ call.args[1].type = "str") =>
        IF TenAsciiDigits(call.args[1])
        THEN ret.kind = "return" /\ ret.value.value = call.args[1]
        ELSE ret.kind = "raise"

\* C3: edit_phone(old, new): with old present and new rejected by Phone,
\* the validation error is propagated and the list is unchanged; with old
\* present and new accepted, the first entry equal to old becomes new, the
\* other entries and the length are unchanged and the result is true; with
\* old absent the result is false and the list is unchanged.
C3_EditPhone ==
    call.op = "edit_phone" =>
        LET old == call.args[1]
            new == call.args[2]
        IN  IF ~Present(pre, old)
            THEN ret.kind = "return" /\ ret.value = FALSE /\ record = pre
            ELSE IF ~Accepted(new)
            THEN ret.kind = "raise" /\ ret.exc = "ValueError" /\ record = pre
            ELSE /\ ret.kind = "return" /\ ret.value = TRUE
                 /\ Len(record.phones) = Len(pre.phones)
                 /\ \E i \in 1 .. Len(pre.phones) :
                       /\ pre.phones[i].value = old
                       /\ \A j \in 1 .. i - 1 : pre.phones[j].value # old
                       /\ record.phones[i].value = new
                       /\ \A j \in 1 .. Len(pre.phones) :
                             j # i => record.phones[j] = pre.phones[j]
                 /\ record.name = pre.name /\ record.birthday = pre.birthday

\* C3 witness: an edit_phone whose old is the second of three phones and
\* whose new is another accepted number.
C3_Witness ==
    /\ call.op = "edit_phone"
    /\ Len(pre.phones) = 3
    /\ pre.phones[2].value = call.args[1]
    /\ pre.phones[1].value # call.args[1]
    /\ call.args[2] # call.args[1]
    /\ ret.kind = "return"
    /\ record.phones[2].value = call.args[2]

\* C4: add_phone(p): with p present, or p rejected by Phone, the call
\* fails and the list is unchanged; otherwise p is appended at the end, the
\* entries before it are unchanged and the length grows by exactly one.
C4_AddPhone ==
    call.op = "add_phone" =>
        LET p == call.args[1]
        IN  IF Present(pre, p) \/ ~Accepted(p)
            THEN ret.kind = "raise" /\ record = pre
            ELSE /\ ret.kind = "return"
                 /\ Len(record.phones) = Len(pre.phones) + 1
                 /\ \A j \in 1 .. Len(pre.phones) : record.phones[j] = pre.phones[j]
                 /\ record.phones[Len(record.phones)].value = p

\* C4 witness: an add_phone of a number the Record already holds, rejected.
C4_Witness ==
    /\ call.op = "add_phone"
    /\ Present(pre, call.args[1])
    /\ Len(pre.phones) >= 2
    /\ ret.kind = "raise"

\* C5: delete(name) returns false and leaves the mapping unchanged when name
\* is no key; otherwise it returns true and removes exactly that entry, the
\* other entries keeping their keys, records and order.
C5_Delete ==
    call.op = "delete" =>
        LET name == call.args[1]
            Other(e) == e.key # name
        IN  /\ ret.kind = "return"
            /\ ret.value = (\E i \in 1 .. Len(pre) : pre[i].key = name)
            /\ book = SelectSeq(pre, Other)

\* C5 witness: a delete of the second of three entries, which differ in
\* their records: the first and the third are left, in that order.
C5_Witness ==
    /\ call.op = "delete"
    /\ Len(pre) = 3
    /\ pre[2].key = call.args[1]
    /\ pre[1].rec.birthday # pre[3].rec.birthday
    /\ ret.value = TRUE
    /\ book = <<pre[1], pre[3]>>

\* C6: add_record with a Record whose name is already a key replaces the
\* stored Record: find(name) is then the new Record, with its own phones and
\* birthday only; the number of entries and every other entry are unchanged.
C6_AddRecordReplaces ==
    (call.op = "add_record" /\ \E i \in 1 .. Len(pre) : pre[i].key = call.args[1].name.value) =>
        LET r == call.args[1]
            name == r.name.value
        IN  /\ find(book, name) = r
            /\ Len(book) = Len(pre)
            /\ \A i \in 1 .. Len(pre) :
                  IF pre[i].key = name
                  THEN book[i].key = name /\ book[i].rec = r
                  ELSE book[i] = pre[i]

\* C6 witness: a Record with a phone and a birthday replaced by one of the
\* same name with neither, in a book of two.
C6_Witness ==
    /\ call.op = "add_record"
    /\ Len(pre) = 2
    /\ pre[1].key = call.args[1].name.value
    /\ pre[1].rec.phones # <<>>
    /\ pre[1].rec.birthday # None
    /\ call.args[1].phones = <<>>
    /\ call.args[1].birthday = None
    /\ book[1].rec.phones = <<>>

\* The number of days from today to the date (month, day) of B in today's
\* year, or in the next year if that date is before today.
Delta(B, today) ==
    LET this == ToOrdinal(Date(today.year, B.month, B.day))
        next == ToOrdinal(Date(today.year + 1, B.month, B.day))
    IN  IF this < ToOrdinal(today) THEN next - ToOrdinal(today) ELSE this - ToOrdinal(today)

\* The entry of `data` is in the 7-day window of today.
InWindow(e, today) ==
    /\ e.rec.birthday # None
    /\ Delta(e.rec.birthday.value, today) \in 0 .. 7

\* C7: for every book and every today, get_upcoming_birthdays returns a
\* list whose names are, in the book's order, exactly the contacts with a
\* birthday whose next occurrence is 0 to 7 days from today.
C7_UpcomingWindow ==
    call.op = "get_upcoming_birthdays" =>
        /\ ret.kind = "return"
        /\ LET In(e) == InWindow(e, call.today)
               expected == SelectSeq(pre, In)
           IN  /\ Len(ret.value) = Len(expected)
               /\ \A i \in 1 .. Len(expected) : ret.value[i].name = expected[i].key

\* The birthday's next occurrence on or after today.
NextOccurrence(B, today) ==
    IF ToOrdinal(Date(today.year, B.month, B.day)) < ToOrdinal(today)
    THEN Date(today.year + 1, B.month, B.day)
    ELSE Date(today.year, B.month, B.day)

\* C8: every emitted congratulation date is the birthday's next occurrence
\* when that is a Monday to Friday, two days later when it is a Saturday,
\* one day later when it is a Sunday; so it is a Monday-to-Friday date from
\* today to today + 9 days.
C8_CongratulationDate ==
    (call.op = "get_upcoming_birthdays" /\ ret.kind = "return") =>
        \A i \in 1 .. Len(ret.value) :
            LET item == ret.value[i]
                B == find(pre, item.name).birthday.value
                occ == NextOccurrence(B, call.today)
                shift == IF weekday(occ) = 5 THEN 2 ELSE IF weekday(occ) = 6 THEN 1 ELSE 0
                expected == FromOrdinal(ToOrdinal(occ) + shift)
                emitted == strptime(item.congratulation_date)
            IN  /\ item.congratulation_date = strftime(expected)
                /\ emitted.kind = "return"
                /\ weekday(emitted.value) \in 0 .. 4
                /\ ToOrdinal(emitted.value) >= ToOrdinal(call.today)
                /\ ToOrdinal(emitted.value) <= ToOrdinal(call.today) + 9

\* C8 witness: a birthday seven days ahead, on a Saturday, emitted as the
\* Monday nine days ahead.
C8_Witness ==
    /\ call.op = "get_upcoming_birthdays"
    /\ ret.kind = "return"
    /\ \E i \in 1 .. Len(ret.value) :
          LET B == find(pre, ret.value[i].name).birthday.value
              occ == NextOccurrence(B, call.today)
          IN  /\ weekday(occ) = 5
              /\ ToOrdinal(occ) = ToOrdinal(call.today) + 7
              /\ ret.value[i].congratulation_date
                     = strftime(FromOrdinal(ToOrdinal(call.today) + 9))

Handlers ==
    {"add_contact", "change_contact", "show_phone", "show_all", "add_birthday",
     "show_birthday", "birthdays"}

\* C9: every handler, for every book and every argument list, returns a
\* single string and raises nothing to its caller.
C9_HandlersReturnString ==
    call.op \in Handlers => (ret.kind = "return" /\ ret.value.type = "str")

\* C9 witness: show_phone called without arguments (an IndexError inside)
\* has returned a string.
C9_Witness ==
    /\ call.op = "show_phone"
    /\ call.args = <<>>
    /\ pre # <<>>
    /\ ret.kind = "return"
    /\ ret.value.type = "str"

\* The messages of the validation errors: an invalid phone, a duplicate
\* phone, an invalid date.
ValidationMessages ==
    {"Phone must be a string.", "Phone must contain only digits.",
     "Phone must be exactly ", "This phone is already added.",
     "Invalid date format. Use "}

\* C10: when add_contact or add_birthday returns a validation error
\* message, the book is as it was before the call.
C10_ErrorLeavesBookUnchanged ==
    (/\ call.op \in {"add_contact", "add_birthday"}
     /\ ret.kind = "return"
     /\ ret.value.parts[1] \in ValidationMessages) => book = pre

====
